---- MODULE Spec2Model ----
(***************************************************************************)
(* One training process of TTS/bin/train_glow_tts.py: the entry point      *)
(* (__main__), main(), data_depended_init(), train() and evaluate(), as a  *)
(* state machine whose positions are the statements of the script.         *)
(*                                                                         *)
(* The process has an arbitrary rank in 0..num_gpus-1: every rank runs the *)
(* same script, so a statement about "any rank" is a statement about this  *)
(* process for every choice of rank.  The losses a step computes, the      *)
(* outcome of every test sentence, the checkpoint found at restore_path,   *)
(* a KeyboardInterrupt and an exception raised by a library call are the   *)
(* inputs, drawn from small sets.                                          *)
(***************************************************************************)
EXTENDS Integers, Sequences, FiniteSets, TLC

(* ------------------------------ bounds --------------------------------- *)
\* c.epochs
NumEpochs == 2
\* batches the train loader yields per epoch
NumTrainBatches == 2
\* batches the eval loader yields per epoch (when c.run_eval)
NumEvalBatches == 1
\* len(test_sentences)
NumSentences == 2
\* c.save_step
SaveStep == 2
\* the step recorded in a restored checkpoint is 0 or CkptStep
CkptStep == 2

(* ------------------------------ values --------------------------------- *)
\* A float: a rational num/den, NaN, or +infinity.
Num(n, d) == [kind |-> "num", num |-> n, den |-> d]
NaN == [kind |-> "nan", num |-> 0, den |-> 1]
Inf == [kind |-> "inf", num |-> 0, den |-> 1]

RECURSIVE Gcd(_, _)
Gcd(a, b) == IF b = 0 THEN a ELSE Gcd(b, a % b)

Norm(n, d) == LET g == Gcd(n, d) IN Num(n \div g, d \div g)

\* x + y on floats (NaN is absorbing)
FAdd(x, y) ==
    IF x.kind = "nan" \/ y.kind = "nan" THEN NaN
    ELSE IF x.kind = "inf" \/ y.kind = "inf" THEN Inf
    ELSE Norm(x.num * y.den + y.num * x.den, x.den * y.den)

\* x / k for a positive integer k
FDiv(x, k) ==
    IF x.kind = "num" THEN Norm(x.num, x.den * k) ELSE x

\* x < y on floats: any comparison with NaN is False
FLess(x, y) ==
    CASE x.kind = "nan" \/ y.kind = "nan" -> FALSE
      [] x.kind = "inf" -> FALSE
      [] y.kind = "inf" -> TRUE
      [] OTHER -> x.num * y.den < y.num * x.den

IsFinite(x) == x.kind = "num"

\* the values a loss takes
LossValues == {Num(1, 1), Num(2, 1), NaN}

(* --------------------------- model parameters -------------------------- *)
\* The freshly built network: parameter name -> shape.
ModelShape == [p1 |-> 1, p2 |-> 2]
ModelKeys == DOMAIN ModelShape
FreshParams == [k \in ModelKeys |-> [shape |-> ModelShape[k], val |-> "init"]]

\* checkpoint['model'] for the three architectures a checkpoint may come from
CkptModel(arch) ==
    CASE arch = "same"  -> [p1 |-> [shape |-> 1, val |-> "ckpt"],
                            p2 |-> [shape |-> 2, val |-> "ckpt"]]
      [] arch = "shape" -> [p1 |-> [shape |-> 1, val |-> "ckpt"],
                            p2 |-> [shape |-> 3, val |-> "ckpt"]]
      [] arch = "extra" -> [p1 |-> [shape |-> 1, val |-> "ckpt"],
                            p2 |-> [shape |-> 2, val |-> "ckpt"],
                            p3 |-> [shape |-> 1, val |-> "ckpt"]]

Archs == {"same", "shape", "extra"}

\* A checkpoint file as an uninterrupted run writes it at global step s: the
\* optimizer has taken s steps.
Checkpoint(s, arch) ==
    [step |-> s, epoch |-> s \div NumTrainBatches, arch |-> arch,
     model |-> CkptModel(arch), optimizer |-> s,
     loss |-> Num(1, 1)]

\* no checkpoint file
NoCkpt == [Checkpoint(0, "same") EXCEPT !.arch = "none"]

Checkpoints ==
    {Checkpoint(0, "same")} \cup {Checkpoint(CkptStep, a) : a \in Archs}

(* ------------------------------ state ---------------------------------- *)
VARIABLES
    c,              \* the configuration (load_config)
    args,           \* the command line: rank, continue_path, restore_path
    num_gpus,       \* world size
    ckptFile,       \* the checkpoint at restore_path (NoCkpt: none)
    pc,             \* position in the script
    raised,         \* the exception propagating out of main(), or "none"
    exitCode,       \* << >> while running, <<code>> once the process exited
    outDir,         \* OUT_PATH: exists, files, and who wrote / removed what
    traced,         \* traceback.print_exc() ran in the top-level handler
    modelParams,    \* model.state_dict()
    optSteps,       \* optimizer state: number of steps taken (state['step'])
    optRestored,    \* optimizer.load_state_dict(checkpoint['optimizer']) ran
    sched,          \* scheduler.last_epoch, << >> when scheduler is None
    restore_step,   \* args.restore_step
    global_step,
    epoch,
    num_iter,       \* batch index inside train() / evaluate()
    best_loss,
    loss,           \* loss_dict['loss'] of the step in progress
    peer_loss,      \* the other worker's loss in the reduction just done
    keep_avg,       \* KeepAverage of the running train()/evaluate(): sum, n
    train_avg,      \* train_avg_loss_dict (<< >>: no 'avg_loss' key)
    eval_avg,       \* eval_avg_loss_dict
    stepOps,        \* operations of the training step in progress, in order
    evalOps,        \* operations done by the evaluate() in progress
    ddi,            \* calibration flag of the flow layers (set_ddi)
    ddiRuns,        \* completed calls of data_depended_init
    ddiAtOptSteps,  \* optimizer.step() calls made when each ddi call started
    optCalls,       \* optimizer.step() calls made by this process
    idx,            \* index of the test sentence being synthesized
    test_audios,    \* sentences whose audio was kept
    test_figures,   \* sentences whose figures were kept
    failedIdx,      \* sentences logged as failed
    raisedAt,       \* position at which the propagating exception was raised
    tpc,            \* models/tacotron.py: "unused", "new" or "ready"
    tacotron,       \* the Tacotron module: its options and sub-modules
    tcall           \* the last forward() / inference() call and its result

vars == <<c, args, num_gpus, ckptFile, pc, raised, exitCode, outDir, traced,
          modelParams, optSteps, optRestored, sched, restore_step, global_step,
          epoch, num_iter, best_loss, loss, peer_loss, keep_avg, train_avg,
          eval_avg, stepOps, evalOps, ddi, ddiRuns, ddiAtOptSteps, optCalls, idx,
          test_audios, test_figures, failedIdx, raisedAt, tpc, tacotron,
          tcall>>

\* groups for UNCHANGED
tacoVars == <<tpc, tacotron, tcall>>
envVars == <<c, args, num_gpus, ckptFile, tacoVars>>
exitVars == <<raised, exitCode, traced, raisedAt>>
netVars == <<modelParams, optSteps, optRestored, sched, restore_step>>
ddiVars == <<ddi, ddiRuns, ddiAtOptSteps>>
loopVars == <<global_step, epoch, num_iter, best_loss>>
lossVars == <<loss, peer_loss, keep_avg, train_avg, eval_avg>>
testVars == <<idx, test_audios, test_figures, failedIdx>>

EmptyAvg == [sum |-> Num(0, 1), n |-> 0]

\* a file of OUT_PATH, and an operation on OUT_PATH by the process of a rank
File(kind, step, ep) == [kind |-> kind, step |-> step, epoch |-> ep]
DirOp(op) == [rank |-> args.rank, op |-> op]

(* ------------------------- models/tacotron.py -------------------------- *)
\* a sub-module is the set of its parameter tensors, each an object id;
\* the empty set stands for an attribute that was never assigned
NoModule == {}

\* the Tacotron module before __init__ has run
NoTacotron ==
    [gst |-> FALSE, num_speakers |-> 1, speaker_embedding_dim |-> 0,
     bidirectional_decoder |-> FALSE, decoder_dim |-> 0,
     decoder |-> NoModule, decoder_backward |-> NoModule]

\* no call of forward() or inference() yet
NoCall ==
    [fn |-> "none", speaker |-> FALSE, width |-> 0, error |-> "none",
     calls |-> << >>, outputs |-> << >>]

(* ------------------------------ Init ----------------------------------- *)
\* c.test_delay_epochs: test sentences from the first epoch on, or in the
\* last epoch only
TestDelays == {0, NumEpochs - 1}

Configs ==
    [noam_schedule : BOOLEAN, run_eval : BOOLEAN, checkpoint : BOOLEAN,
     use_speaker_embedding : BOOLEAN, reinit_layers : BOOLEAN,
     test_delay_epochs : TestDelays]

Init ==
    /\ c \in Configs
    /\ num_gpus \in {1, 2}
    /\ args \in [rank : 0..1, continue_path : BOOLEAN, restore_path : BOOLEAN]
    /\ args.rank < num_gpus
    /\ ckptFile \in Checkpoints \cup {NoCkpt}
    \* --restore_path names a file; --continue_path names a folder, which
    \* may hold no checkpoint
    /\ args.restore_path => ckptFile.arch # "none" /\ ~args.continue_path
    /\ (~args.restore_path /\ ~args.continue_path) => ckptFile.arch = "none"
    \* a folder to continue in holds the run's own checkpoints, or none
    /\ args.continue_path =>
          ckptFile \in {Checkpoint(CkptStep, "same"), NoCkpt}
    \* c.reinit_layers is read only while restoring
    /\ c.reinit_layers =>
          args.restore_path /\ ckptFile = Checkpoint(CkptStep, "same")
    \* c.checkpoint (line 287) and c.test_delay_epochs (line 413) are read
    \* only on rank 0
    /\ args.rank # 0 => c.checkpoint /\ c.test_delay_epochs = 0
    /\ pc = "start"
    /\ raised = "none"
    /\ exitCode = << >>
    /\ outDir = [exists |-> args.continue_path,
                 files |-> IF ckptFile.arch # "none" /\ args.continue_path
                           THEN {File("checkpoint", ckptFile.step, ckptFile.epoch)}
                           ELSE {},
                 ops |-> {}]
    /\ traced = FALSE
    /\ modelParams = FreshParams
    /\ optSteps = 0
    /\ optRestored = FALSE
    /\ sched = << >>
    /\ restore_step = 0
    /\ global_step = 0
    /\ epoch = 0
    /\ num_iter = 0
    /\ best_loss = Inf
    /\ loss = NaN
    /\ peer_loss = NaN
    /\ keep_avg = EmptyAvg
    /\ train_avg = << >>
    /\ eval_avg = << >>
    /\ stepOps = << >>
    /\ evalOps = << >>
    /\ ddi = FALSE
    /\ ddiRuns = 0
    /\ ddiAtOptSteps = << >>
    /\ optCalls = 0
    /\ idx = 0
    /\ test_audios = {}
    /\ test_figures = {}
    /\ failedIdx = {}
    /\ raisedAt = "none"
    \* the training script builds a GlowTTS model, no Tacotron
    /\ tpc = "unused"
    /\ tacotron = NoTacotron
    /\ tcall = NoCall

(* --------------------------- exceptions -------------------------------- *)
\* positions of the entry point before main(args) is called (lines 633-673)
SetupPcs == {"start", "create_folder", "rank0_setup", "call_main"}

\* positions after main(args) was left
EndPcs == {"handler_kbd", "handler_exc", "exited"}

\* Faulty variant of ExceptTarget: the restore has no except clause of its
\* own, so a failed load leaves main().
ExceptTarget_NoBareExcept(p, kind) ==
    IF kind = "KeyboardInterrupt" THEN "handler_kbd" ELSE "handler_exc"

\* Where control goes when an exception of `kind` is raised at position p
\* inside main(): the bare `except:` of the restore (line 535) catches
\* everything raised in its try block; anything else leaves main() for the
\* handlers of the entry point (lines 677, 683).
ExceptTarget(p, kind) ==
    IF p = "restore_try" THEN "restore_except"
    ELSE IF kind = "KeyboardInterrupt" THEN "handler_kbd"
    ELSE "handler_exc"

\* An exception of `kind` raised at the current position; sets pc, raised,
\* raisedAt and exitCode.  Before main() is entered nothing catches it: the
\* interpreter prints the trace and the process ends with a non-zero status
\* (1, or 130 for a KeyboardInterrupt that the interpreter re-raises as
\* SIGINT).
Raise(kind) ==
    IF pc \in SetupPcs
    THEN /\ pc' = "exited"
         /\ raised' = kind
         /\ raisedAt' = pc
         /\ exitCode' \in (IF kind = "KeyboardInterrupt"
                           THEN {<<1>>, <<130>>} ELSE {<<1>>})
    ELSE /\ pc' = ExceptTarget(pc, kind)
         /\ raised' = (IF pc' \in EndPcs THEN kind ELSE "none")
         /\ raisedAt' = (IF pc' \in EndPcs THEN pc ELSE "none")
         /\ exitCode' = exitCode

\* The locals of main(), train() and evaluate() when an exception leaves
\* main(): the frames are unwound and their objects are gone.  The history
\* variables (stepOps, evalOps, the ddi and optimizer call counts) stay.
Unwound ==
    /\ modelParams' = FreshParams
    /\ optSteps' = 0
    /\ optRestored' = FALSE
    /\ sched' = << >>
    /\ restore_step' = 0
    /\ global_step' = 0
    /\ epoch' = 0
    /\ num_iter' = 0
    /\ best_loss' = Inf
    /\ loss' = NaN
    /\ peer_loss' = NaN
    /\ keep_avg' = [sum |-> Num(0, 1), n |-> 0]
    /\ train_avg' = << >>
    /\ eval_avg' = << >>
    /\ idx' = 0
    /\ test_audios' = {}
    /\ test_figures' = {}
    /\ failedIdx' = {}

\* the same locals, untouched
Kept ==
    UNCHANGED <<modelParams, optSteps, optRestored, sched, restore_step,
                global_step, epoch, num_iter, best_loss, loss, peer_loss, keep_avg,
                train_avg, eval_avg, idx, test_audios, test_figures,
                failedIdx>>

\* An exception of `kind` raised at the current position by a statement that
\* has changed nothing yet.
RaiseHere(kind) ==
    /\ Raise(kind)
    /\ IF pc' \in {"handler_kbd", "handler_exc"} THEN Unwound ELSE Kept
    /\ UNCHANGED <<envVars, outDir, traced, ddiVars, stepOps, evalOps,
                   optCalls>>

(* --------------------------- entry point ------------------------------- *)
\* lines 633-648: --continue_path picks the latest *.pth.tar of the folder
\* (max() of an empty list raises ValueError), then the config is loaded
SetupArgs ==
    /\ pc = "start"
    /\ IF args.continue_path /\ ckptFile.arch = "none"
       THEN /\ Raise("ValueError")
            /\ UNCHANGED args
       ELSE /\ args' = [args EXCEPT !.restore_path = @ \/ args.continue_path]
            /\ pc' = "create_folder"
            /\ UNCHANGED <<raised, raisedAt, exitCode>>
    /\ UNCHANGED <<c, num_gpus, ckptFile, tacoVars, outDir, traced, netVars,
                   ddiVars, loopVars, lossVars, testVars, stepOps, evalOps,
                   optCalls>>

\* lines 650-656: every process creates the experiment folder unless it
\* continues in an existing one
CreateFolder ==
    /\ pc = "create_folder"
    /\ outDir' = IF args.continue_path THEN outDir
                 ELSE [outDir EXCEPT !.exists = TRUE,
                                     !.ops = @ \cup {DirOp("create")}]
    /\ pc' = "rank0_setup"
    /\ UNCHANGED <<envVars, exitVars, netVars, ddiVars, loopVars, lossVars,
                   testVars, stepOps, evalOps, optCalls>>

\* lines 658-673: rank 0 creates test_audios, copies the config, opens the
\* tensorboard log
Rank0Setup ==
    /\ pc = "rank0_setup"
    /\ outDir' = IF args.rank = 0
                 THEN [outDir EXCEPT
                         !.files = @ \cup {File("config", 0, 0)},
                         !.ops = @ \cup {DirOp("write_config")}]
                 ELSE outDir
    /\ pc' = "call_main"
    /\ UNCHANGED <<envVars, exitVars, netVars, ddiVars, loopVars, lossVars,
                   testVars, stepOps, evalOps, optCalls>>

\* lines 675-676
CallMain ==
    /\ pc = "call_main"
    /\ pc' = "main"
    /\ UNCHANGED <<envVars, exitVars, outDir, netVars, ddiVars, loopVars,
                   lossVars, testVars, stepOps, evalOps, optCalls>>

\* remove_experiment_folder(OUT_PATH)
RemoveFolder(d) ==
    [exists |-> FALSE, files |-> {}, ops |-> d.ops \cup {DirOp("remove")}]

\* Faulty variant of HandleInterrupt: exits 0 and leaves the folder.
HandleInterrupt_NoCleanup ==
    /\ pc = "handler_kbd"
    /\ exitCode' = <<0>>
    /\ pc' = "exited"
    /\ UNCHANGED <<envVars, raised, raisedAt, traced, outDir, netVars, ddiVars,
                   loopVars, lossVars, testVars, stepOps, evalOps, optCalls>>

\* lines 677-682: except KeyboardInterrupt
HandleInterrupt ==
    /\ pc = "handler_kbd"
    /\ outDir' = RemoveFolder(outDir)
    /\ exitCode' = <<0>>
    /\ pc' = "exited"
    /\ UNCHANGED <<envVars, raised, raisedAt, traced, netVars, ddiVars,
                   loopVars, lossVars, testVars, stepOps, evalOps, optCalls>>

\* Faulty variant of HandleException: prints the trace, exits 1 and leaves
\* the folder.
HandleException_NoCleanup ==
    /\ pc = "handler_exc"
    /\ traced' = TRUE
    /\ exitCode' = <<1>>
    /\ pc' = "exited"
    /\ UNCHANGED <<envVars, raised, raisedAt, outDir, netVars, ddiVars,
                   loopVars, lossVars, testVars, stepOps, evalOps, optCalls>>

\* lines 683-686: except Exception
HandleException ==
    /\ pc = "handler_exc"
    /\ outDir' = RemoveFolder(outDir)
    /\ traced' = TRUE
    /\ exitCode' = <<1>>
    /\ pc' = "exited"
    /\ UNCHANGED <<envVars, raised, raisedAt, netVars, ddiVars, loopVars,
                   lossVars, testVars, stepOps, evalOps, optCalls>>

(* ------------------------------ main() --------------------------------- *)
\* lines 489-523: audio processor, init_distributed, data, model, optimizer
MainBuild ==
    /\ pc = "main"
    /\ modelParams' = FreshParams
    /\ optSteps' = 0
    /\ pc' = "restore"
    /\ UNCHANGED <<envVars, exitVars, outDir, optRestored, sched, restore_step,
                   ddiVars, loopVars, lossVars, testVars, stepOps, evalOps,
                   optCalls>>

\* lines 525-526, 550-551
RestoreLoad ==
    /\ pc = "restore"
    /\ IF args.restore_path
       THEN pc' = "restore_try" /\ UNCHANGED restore_step
       ELSE pc' = "post_restore" /\ restore_step' = 0
    /\ UNCHANGED <<envVars, exitVars, outDir, modelParams, optSteps,
                   optRestored, sched, ddiVars, loopVars, lossVars, testVars,
                   stepOps, evalOps, optCalls>>

\* optimizer.load_state_dict raises when the parameter groups differ in size
OptimizerLoadable(ck) ==
    Cardinality(DOMAIN ck.model) = Cardinality(ModelKeys)

\* model.load_state_dict (strict) raises on a missing or unexpected key or a
\* shape mismatch
StrictLoadable(ck) ==
    /\ DOMAIN ck.model = ModelKeys
    /\ \A k \in ModelKeys : ck.model[k].shape = ModelShape[k]

\* line 530: the optimizer state is loaded only without the noam schedule
LoadsOptimizer == ~c.noam_schedule

\* lines 527-534: the try block of the restore
RestoreTry ==
    /\ pc = "restore_try"
    /\ LET optOk == LoadsOptimizer => OptimizerLoadable(ckptFile)
           loaded == LoadsOptimizer /\ OptimizerLoadable(ckptFile)
           full == optOk /\ ~c.reinit_layers /\ StrictLoadable(ckptFile)
       IN /\ optSteps' = IF loaded THEN ckptFile.optimizer ELSE optSteps
          /\ optRestored' = loaded
          /\ modelParams' = IF full THEN ckptFile.model ELSE modelParams
          /\ IF full
             THEN pc' = "restore_done" /\ UNCHANGED <<raised, raisedAt, exitCode>>
             ELSE Raise("RuntimeError")
    /\ UNCHANGED <<envVars, traced, outDir, sched, restore_step, ddiVars,
                   loopVars, lossVars, testVars, stepOps, evalOps, optCalls>>

\* set_init_dict(model_dict, checkpoint['model'], c): the model's own state
\* with the checkpoint's entries of matching name and shape copied over it
SetInitDict(model_dict, checkpoint_state) ==
    [k \in DOMAIN model_dict |->
        IF /\ k \in DOMAIN checkpoint_state
           /\ checkpoint_state[k].shape = model_dict[k].shape
        THEN checkpoint_state[k]
        ELSE model_dict[k]]

\* lines 535-540: except: partial model initialization
RestoreExcept ==
    /\ pc = "restore_except"
    /\ modelParams' = SetInitDict(modelParams, ckptFile.model)
    /\ pc' = "restore_done"
    /\ UNCHANGED <<envVars, exitVars, outDir, optSteps, optRestored, sched,
                   restore_step, ddiVars, loopVars, lossVars, testVars,
                   stepOps, evalOps, optCalls>>

\* line 549
RestoreStep(ck) == ck.step

\* lines 542-549
RestoreFinish ==
    /\ pc = "restore_done"
    /\ restore_step' = RestoreStep(ckptFile)
    /\ pc' = "post_restore"
    /\ UNCHANGED <<envVars, exitVars, outDir, modelParams, optSteps,
                   optRestored, sched, ddiVars, loopVars, lossVars, testVars,
                   stepOps, evalOps, optCalls>>

\* NoamLR(optimizer, warmup_steps, last_epoch): the constructor of the
\* scheduler base class takes one step, leaving last_epoch + 1
NoamLR(last_epoch) == last_epoch + 1

\* Faulty variant of SetupScheduler: the best loss starts from the loss
\* recorded in the checkpoint.
SetupScheduler_BestFromCheckpoint ==
    /\ pc = "post_restore"
    /\ sched' = IF c.noam_schedule THEN <<NoamLR(restore_step - 1)>> ELSE << >>
    /\ best_loss' = IF ckptFile.arch = "none" THEN Inf ELSE ckptFile.loss
    /\ global_step' = restore_step
    /\ pc' = "ddi_check"
    /\ UNCHANGED <<envVars, exitVars, outDir, modelParams, optSteps,
                   optRestored, restore_step, ddiVars, epoch, num_iter,
                   lossVars, testVars, stepOps, evalOps, optCalls>>

\* lines 553-574
SetupScheduler ==
    /\ pc = "post_restore"
    /\ sched' = IF c.noam_schedule THEN <<NoamLR(restore_step - 1)>> ELSE << >>
    /\ best_loss' = Inf
    /\ global_step' = restore_step
    /\ pc' = "ddi_check"
    /\ UNCHANGED <<envVars, exitVars, outDir, modelParams, optSteps,
                   optRestored, restore_step, ddiVars, epoch, num_iter,
                   lossVars, testVars, stepOps, evalOps, optCalls>>

\* Faulty variant of NeedsDdi: the initialization runs on every start.
NeedsDdi_Always == TRUE

\* line 576: data depended initialization is skipped when training continues
NeedsDdi == global_step = 0

\* lines 575-577
DdiCheck ==
    /\ pc = "ddi_check"
    /\ pc' = IF NeedsDdi THEN "ddi_enable" ELSE "loaders"
    /\ UNCHANGED <<envVars, exitVars, outDir, netVars, ddiVars, loopVars,
                   lossVars, testVars, stepOps, evalOps, optCalls>>

\* data_depended_init, lines 144-151: set_ddi(True) on the flow layers
DdiEnable ==
    /\ pc = "ddi_enable"
    /\ ddi' = TRUE
    /\ ddiAtOptSteps' = Append(ddiAtOptSteps, optCalls)
    /\ pc' = "ddi_forward"
    /\ UNCHANGED <<envVars, exitVars, outDir, netVars, ddiRuns, loopVars,
                   lossVars, testVars, stepOps, evalOps, optCalls>>

\* data_depended_init, lines 153-166: one forward pass under no_grad
DdiForward ==
    /\ pc = "ddi_forward"
    /\ pc' = "ddi_disable"
    /\ UNCHANGED <<envVars, exitVars, outDir, netVars, ddiVars, loopVars,
                   lossVars, testVars, stepOps, evalOps, optCalls>>

\* Faulty variant of DdiDisable: the flag is left on when the function
\* returns.
DdiDisable_FlagLeftOn ==
    /\ pc = "ddi_disable"
    /\ ddiRuns' = ddiRuns + 1
    /\ pc' = "loaders"
    /\ UNCHANGED <<envVars, exitVars, outDir, netVars, ddi, ddiAtOptSteps,
                   loopVars, lossVars, testVars, stepOps, evalOps, optCalls>>

\* data_depended_init, lines 168-176: set_ddi(False)
DdiDisable ==
    /\ pc = "ddi_disable"
    /\ ddi' = FALSE
    /\ ddiRuns' = ddiRuns + 1
    /\ pc' = "loaders"
    /\ UNCHANGED <<envVars, exitVars, outDir, netVars, ddiAtOptSteps, loopVars,
                   lossVars, testVars, stepOps, evalOps, optCalls>>

\* lines 579-581
SetupLoaders ==
    /\ pc = "loaders"
    /\ pc' = "epoch"
    /\ UNCHANGED <<envVars, exitVars, outDir, netVars, ddiVars, loopVars,
                   lossVars, testVars, stepOps, evalOps, optCalls>>

(* ------------------------------ train() -------------------------------- *)
\* line 583: for epoch in range(0, c.epochs); main() returns after the last
EpochStart ==
    /\ pc = "epoch"
    /\ IF epoch < NumEpochs
       THEN pc' = "train" /\ UNCHANGED exitCode
       ELSE pc' = "exited" /\ exitCode' = <<0>>
    /\ UNCHANGED <<envVars, raised, raisedAt, traced, outDir, netVars, ddiVars,
                   loopVars, lossVars, testVars, stepOps, evalOps, optCalls>>

\* lines 181-190
TrainStart ==
    /\ pc = "train"
    /\ keep_avg' = EmptyAvg
    /\ num_iter' = 0
    /\ stepOps' = << >>
    /\ pc' = "tr_fetch"
    /\ UNCHANGED <<envVars, exitVars, outDir, netVars, ddiVars, global_step,
                   epoch, best_loss, loss, peer_loss, train_avg, eval_avg, testVars,
                   evalOps, optCalls>>

\* lines 191-200: the next batch is fetched, formatted and moved to the
\* device, and the global step is counted
TrainFetch ==
    /\ pc = "tr_fetch"
    /\ IF num_iter < NumTrainBatches
       THEN /\ global_step' = global_step + 1
            /\ stepOps' = <<"fetch">>
            /\ pc' = "tr_sched"
       ELSE /\ pc' = "tr_end"
            /\ UNCHANGED <<global_step, stepOps>>
    /\ UNCHANGED <<envVars, exitVars, outDir, netVars, ddiVars, epoch,
                   num_iter, best_loss, lossVars, testVars, evalOps, optCalls>>

\* Faulty variant of TrainSched: the scheduler is stepped whether or not
\* c.noam_schedule is set.
TrainSched_Always ==
    /\ pc = "tr_sched"
    /\ sched' = IF sched = << >> THEN <<1>> ELSE <<sched[1] + 1>>
    /\ stepOps' = Append(stepOps, "scheduler_step")
    /\ pc' = "tr_zero"
    /\ UNCHANGED <<envVars, exitVars, outDir, modelParams, optSteps,
                   optRestored, restore_step, ddiVars, loopVars, lossVars,
                   testVars, evalOps, optCalls>>

\* lines 202-204
TrainSched ==
    /\ pc = "tr_sched"
    /\ IF c.noam_schedule
       THEN /\ sched' = <<sched[1] + 1>>
            /\ stepOps' = Append(stepOps, "scheduler_step")
       ELSE UNCHANGED <<sched, stepOps>>
    /\ pc' = "tr_zero"
    /\ UNCHANGED <<envVars, exitVars, outDir, modelParams, optSteps,
                   optRestored, restore_step, ddiVars, loopVars, lossVars,
                   testVars, evalOps, optCalls>>

\* line 205
ZeroGrad ==
    /\ pc = "tr_zero"
    /\ stepOps' = Append(stepOps, "zero_grad")
    /\ pc' = "tr_forward"
    /\ UNCHANGED <<envVars, exitVars, outDir, netVars, ddiVars, loopVars,
                   lossVars, testVars, evalOps, optCalls>>

\* lines 207-209
Forward ==
    /\ pc = "tr_forward"
    /\ stepOps' = Append(stepOps, "forward")
    /\ pc' = "tr_loss"
    /\ UNCHANGED <<envVars, exitVars, outDir, netVars, ddiVars, loopVars,
                   lossVars, testVars, evalOps, optCalls>>

\* lines 211-213: criterion(...) returns whatever the arithmetic gives
ComputeLoss ==
    /\ pc = "tr_loss"
    /\ loss' \in LossValues
    /\ stepOps' = Append(stepOps, "loss")
    /\ pc' = "tr_backward"
    /\ UNCHANGED <<envVars, exitVars, outDir, netVars, ddiVars, loopVars,
                   peer_loss, keep_avg, train_avg, eval_avg, testVars, evalOps,
                   optCalls>>

\* lines 215-220: backward(), under amp.scale_loss when amp is in use
Backward ==
    /\ pc = "tr_backward"
    /\ stepOps' = Append(stepOps, "backward")
    /\ pc' = "tr_clip"
    /\ UNCHANGED <<envVars, exitVars, outDir, netVars, ddiVars, loopVars,
                   lossVars, testVars, evalOps, optCalls>>

\* lines 222-226: check_update clips the gradient norm; the skip flag it
\* returns is dropped
ClipGrad ==
    /\ pc = "tr_clip"
    /\ stepOps' = Append(stepOps, "clip")
    /\ pc' = "tr_optstep"
    /\ UNCHANGED <<envVars, exitVars, outDir, netVars, ddiVars, loopVars,
                   lossVars, testVars, evalOps, optCalls>>

\* line 227
OptimizerStep ==
    /\ pc = "tr_optstep"
    /\ optSteps' = optSteps + 1
    /\ optCalls' = optCalls + 1
    /\ stepOps' = Append(stepOps, "optimizer_step")
    /\ pc' = "tr_reduce"
    /\ UNCHANGED <<envVars, exitVars, outDir, modelParams, optRestored, sched,
                   restore_step, ddiVars, loopVars, lossVars, testVars,
                   evalOps>>

\* what the other worker's criterion can have returned for the same step;
\* there is no other worker when num_gpus = 1
PeerLosses == IF num_gpus > 1 THEN LossValues ELSE {NaN}

\* reduce_tensor(tensor, num_gpus): the sum over the workers divided by
\* their number; `peer` is what the other worker contributes
ReduceTensor(local, peer, n) == FDiv(FAdd(local, peer), n)

\* Faulty variant of ReduceLosses: each worker logs its own loss.
ReduceLosses_Local ==
    /\ pc = "tr_reduce"
    /\ peer_loss' \in PeerLosses
    /\ pc' = "tr_avg"
    /\ UNCHANGED <<envVars, exitVars, outDir, netVars, ddiVars, loopVars,
                   loss, keep_avg, train_avg, eval_avg, testVars, stepOps,
                   evalOps, optCalls>>

\* lines 229-252: with several workers the logged losses are reduced
ReduceLosses ==
    /\ pc = "tr_reduce"
    /\ IF num_gpus > 1
       THEN /\ peer_loss' \in PeerLosses
            /\ loss' = ReduceTensor(loss, peer_loss', num_gpus)
       ELSE UNCHANGED <<loss, peer_loss>>
    /\ pc' = "tr_avg"
    /\ UNCHANGED <<envVars, exitVars, outDir, netVars, ddiVars, loopVars,
                   keep_avg, train_avg, eval_avg, testVars, stepOps, evalOps,
                   optCalls>>

\* KeepAverage.update_values: one more value in the running mean
UpdateValues(k, v) == [sum |-> FAdd(k.sum, v), n |-> k.n + 1]

\* KeepAverage.avg_values: << >> when nothing was added ('avg_loss' missing)
AvgValues(k) == IF k.n = 0 THEN << >> ELSE <<FDiv(k.sum, k.n)>>

\* lines 254-260
UpdateAvg ==
    /\ pc = "tr_avg"
    /\ keep_avg' = UpdateValues(keep_avg, loss)
    /\ peer_loss' = NaN
    /\ stepOps' = Append(stepOps, "update_avg")
    /\ pc' = "tr_save"
    /\ UNCHANGED <<envVars, exitVars, outDir, netVars, ddiVars, loopVars,
                   loss, train_avg, eval_avg, testVars, evalOps, optCalls>>

\* line 286, under the rank check of line 274
SaveDue == args.rank = 0 /\ global_step % SaveStep = 0

\* lines 262-291: progress is printed, and on rank 0 every save_step steps
\* the checkpoint is written (when c.checkpoint)
TrainCheckpoint ==
    /\ pc = "tr_save"
    /\ IF SaveDue
       THEN /\ outDir' = IF c.checkpoint
                         THEN [outDir EXCEPT
                                 !.files = @ \cup
                                     {File("checkpoint", global_step, epoch)},
                                 !.ops = @ \cup {DirOp("save_checkpoint")}]
                         ELSE outDir
            /\ pc' = "tr_diag"
            /\ UNCHANGED num_iter
       ELSE /\ pc' = "tr_fetch"
            /\ num_iter' = num_iter + 1
            /\ UNCHANGED outDir
    /\ UNCHANGED <<envVars, exitVars, netVars, ddiVars, global_step, epoch,
                   best_loss, lossVars, testVars, stepOps, evalOps, optCalls>>

\* format_data, lines 117-126: speaker_ids is None without speaker embedding
SpeakerIdsIsNone == ~c.use_speaker_embedding

\* lines 293-315: the diagnostic pass slices speaker_ids[:1], a TypeError
\* when speaker_ids is None
TrainDiagnostics ==
    /\ pc = "tr_diag"
    /\ IF SpeakerIdsIsNone
       THEN RaiseHere("TypeError")
       ELSE /\ pc' = "tr_fetch"
            /\ num_iter' = num_iter + 1
            /\ UNCHANGED <<envVars, exitVars, outDir, netVars, ddiVars,
                           global_step, epoch, best_loss, lossVars, testVars,
                           stepOps, evalOps, optCalls>>

\* What main() reads of train_avg_loss_dict: line 590 reads 'avg_loss' (a
\* KeyError when it is missing) and with c.run_eval line 592 overwrites the
\* value at once, so only without c.run_eval is the value itself used.
TrainAvgRead(avg) ==
    IF c.run_eval /\ avg # << >> THEN <<NaN>> ELSE avg

\* Faulty variant of TrainEnd: the global step counted by train() is not
\* handed back to main().
TrainEnd_StepNotReturned ==
    /\ pc = "tr_end"
    /\ train_avg' = TrainAvgRead(AvgValues(keep_avg))
    /\ keep_avg' = EmptyAvg
    /\ loss' = NaN
    /\ peer_loss' = NaN
    /\ num_iter' = 0
    /\ global_step' = global_step - num_iter
    /\ pc' = "ev_start"
    /\ UNCHANGED <<envVars, exitVars, outDir, netVars, ddiVars, epoch,
                   best_loss, eval_avg, testVars, stepOps, evalOps, optCalls>>

\* lines 317-327: train() returns keep_avg.avg_values and the global step;
\* its locals are gone
TrainEnd ==
    /\ pc = "tr_end"
    /\ train_avg' = TrainAvgRead(AvgValues(keep_avg))
    /\ keep_avg' = EmptyAvg
    /\ loss' = NaN
    /\ peer_loss' = NaN
    /\ num_iter' = 0
    /\ pc' = "ev_start"
    /\ UNCHANGED <<envVars, exitVars, outDir, netVars, ddiVars, global_step,
                   epoch, best_loss, eval_avg, testVars, stepOps, evalOps,
                   optCalls>>

(* ----------------------------- evaluate() ------------------------------ *)
\* lines 332-336: the eval loader is None unless c.run_eval (setup_loader,
\* lines 41-42)
EvalStart ==
    /\ pc = "ev_start"
    /\ keep_avg' = EmptyAvg
    /\ num_iter' = 0
    /\ evalOps' = << >>
    /\ pc' = IF c.run_eval THEN "ev_fetch" ELSE "ev_test"
    /\ UNCHANGED <<envVars, exitVars, outDir, netVars, ddiVars, global_step,
                   epoch, best_loss, loss, peer_loss, train_avg, eval_avg, testVars,
                   stepOps, optCalls>>

\* lines 337-342
EvalFetch ==
    /\ pc = "ev_fetch"
    /\ pc' = IF num_iter < NumEvalBatches THEN "ev_forward" ELSE "ev_diag"
    /\ peer_loss' = NaN
    /\ UNCHANGED <<envVars, exitVars, outDir, netVars, ddiVars, loopVars,
                   loss, keep_avg, train_avg, eval_avg, testVars, stepOps,
                   evalOps, optCalls>>

\* Faulty variant of EvalForward: the eval step also applies the optimizer.
EvalForward_Steps ==
    /\ pc = "ev_forward"
    /\ loss' \in LossValues
    /\ evalOps' = Append(evalOps, "forward")
    /\ optSteps' = optSteps + 1
    /\ optCalls' = optCalls + 1
    /\ pc' = "ev_avg"
    /\ UNCHANGED <<envVars, exitVars, outDir, modelParams, optRestored, sched,
                   restore_step, ddiVars, loopVars, peer_loss, keep_avg,
                   train_avg, eval_avg, testVars, stepOps>>

\* lines 344-358: forward pass and loss, under no_grad
EvalForward ==
    /\ pc = "ev_forward"
    /\ loss' \in LossValues
    /\ evalOps' = Append(evalOps, "forward")
    /\ pc' = "ev_avg"
    /\ UNCHANGED <<envVars, exitVars, outDir, netVars, ddiVars, loopVars,
                   peer_loss, keep_avg, train_avg, eval_avg, testVars, stepOps,
                   optCalls>>

\* lines 360-382: the losses are reduced over the workers and averaged
EvalAvg ==
    /\ pc = "ev_avg"
    /\ peer_loss' \in PeerLosses
    /\ LET logged == IF num_gpus > 1
                      THEN ReduceTensor(loss, peer_loss', num_gpus) ELSE loss
       IN /\ loss' = logged
          /\ keep_avg' = UpdateValues(keep_avg, logged)
    /\ num_iter' = num_iter + 1
    /\ evalOps' = Append(evalOps, "update_avg")
    /\ pc' = "ev_fetch"
    /\ UNCHANGED <<envVars, exitVars, outDir, netVars, ddiVars, global_step,
                   epoch, best_loss, train_avg, eval_avg, testVars, stepOps,
                   optCalls>>

\* lines 384-411: on rank 0 the last batch is rendered; text_input is
\* unbound when the loader was empty (NameError), and speaker_ids[:1] is a
\* TypeError when speaker_ids is None
EvalDiagnostics ==
    /\ pc = "ev_diag"
    /\ IF args.rank = 0 /\ (keep_avg.n = 0 \/ SpeakerIdsIsNone)
       THEN RaiseHere(IF keep_avg.n = 0 THEN "NameError" ELSE "TypeError")
       ELSE /\ pc' = "ev_test"
            /\ evalOps' = IF args.rank = 0
                          THEN Append(evalOps, "diagnostics") ELSE evalOps
            /\ UNCHANGED <<envVars, exitVars, outDir, netVars, ddiVars,
                           loopVars, lossVars, testVars, stepOps, optCalls>>

\* Faulty variant of TestDue: the delay of the test sentences is ignored.
TestDue_NoDelay == args.rank = 0

\* line 413
TestDue == args.rank = 0 /\ epoch >= c.test_delay_epochs

\* lines 413-447
EvalTest ==
    /\ pc = "ev_test"
    /\ IF TestDue
       THEN /\ idx' = 0
            /\ test_audios' = {}
            /\ test_figures' = {}
            /\ failedIdx' = {}
            /\ pc' = "ev_synth"
       ELSE /\ pc' = "ev_return"
            /\ UNCHANGED testVars
    /\ UNCHANGED <<envVars, exitVars, outDir, netVars, ddiVars, loopVars,
                   lossVars, stepOps, evalOps, optCalls>>

\* what can happen to one test sentence: it is synthesized, saved and
\* plotted, or synthesis() or save_wav raises
SynthOutcomes == {"ok", "failed"}

\* Faulty variant of SynthOne: the try block is around the whole loop, so
\* the first failing sentence ends it.
SynthOne_Abort(outcome) ==
    /\ test_audios' = IF outcome = "ok"
                      THEN test_audios \cup {idx} ELSE test_audios
    /\ test_figures' = IF outcome = "ok"
                       THEN test_figures \cup {idx} ELSE test_figures
    /\ failedIdx' = IF outcome = "ok" THEN failedIdx ELSE failedIdx \cup {idx}
    /\ outDir' = IF outcome = "ok"
                 THEN [outDir EXCEPT
                         !.files = @ \cup {File("test_audios", 0, 0)},
                         !.ops = @ \cup {DirOp("save_wav")}]
                 ELSE outDir
    /\ evalOps' = Append(evalOps, "synthesis")
    /\ idx' = idx + 1
    /\ pc' = IF outcome = "ok" THEN "ev_synth" ELSE "ev_tb"

\* lines 450-477: the body of the loop for sentence idx, with its bare
\* except
SynthOne(outcome) ==
    /\ test_audios' = IF outcome = "ok"
                      THEN test_audios \cup {idx} ELSE test_audios
    /\ test_figures' = IF outcome = "ok"
                       THEN test_figures \cup {idx} ELSE test_figures
    /\ failedIdx' = IF outcome = "ok" THEN failedIdx ELSE failedIdx \cup {idx}
    /\ outDir' = IF outcome = "ok"
                 THEN [outDir EXCEPT
                         !.files = @ \cup {File("test_audios", 0, 0)},
                         !.ops = @ \cup {DirOp("save_wav")}]
                 ELSE outDir
    /\ evalOps' = Append(evalOps, "synthesis")
    /\ idx' = idx + 1
    /\ pc' = "ev_synth"

\* lines 449-477
Synthesize ==
    /\ pc = "ev_synth"
    /\ IF idx < NumSentences
       THEN \E outcome \in SynthOutcomes : SynthOne(outcome)
       ELSE /\ pc' = "ev_tb"
            /\ UNCHANGED <<testVars, outDir, evalOps>>
    /\ UNCHANGED <<envVars, exitVars, netVars, ddiVars, loopVars, lossVars,
                   stepOps, optCalls>>

\* lines 478-480: the audios and figures are handed to the tensorboard
\* logger and not used again
TestLog ==
    /\ pc = "ev_tb"
    /\ evalOps' = Append(evalOps, "tb_test")
    /\ idx' = 0
    /\ test_audios' = {}
    /\ test_figures' = {}
    /\ failedIdx' = {}
    /\ pc' = "ev_return"
    /\ UNCHANGED <<envVars, exitVars, outDir, netVars, ddiVars, loopVars,
                   lossVars, stepOps, optCalls>>

\* line 481: evaluate() returns keep_avg.avg_values; its locals are gone
EvalReturn ==
    /\ pc = "ev_return"
    /\ eval_avg' = AvgValues(keep_avg)
    /\ keep_avg' = EmptyAvg
    /\ loss' = NaN
    /\ peer_loss' = NaN
    /\ num_iter' = 0
    /\ pc' = "save_best"
    /\ UNCHANGED <<envVars, exitVars, outDir, netVars, ddiVars, global_step,
                   epoch, best_loss, train_avg, testVars, stepOps, evalOps,
                   optCalls>>

(* --------------------------- end of an epoch --------------------------- *)
\* Faulty variant of TargetLoss: the training loss is the target even when
\* an evaluation was run.
TargetLoss_TrainOnly == train_avg[1]

\* lines 590-592
TargetLoss == IF c.run_eval THEN eval_avg[1] ELSE train_avg[1]

\* save_best_model(target_loss, best_loss, ...): the best loss it returns
SaveBestModel(target, best) == IF FLess(target, best) THEN target ELSE best

\* lines 589-594: a missing 'avg_loss' is a KeyError; save_best_model is
\* called by every rank
SaveBest ==
    /\ pc = "save_best"
    /\ IF train_avg = << >> \/ (c.run_eval /\ eval_avg = << >>)
       THEN RaiseHere("KeyError")
       ELSE /\ best_loss' = SaveBestModel(TargetLoss, best_loss)
            /\ outDir' =
                 IF FLess(TargetLoss, best_loss)
                 THEN [outDir EXCEPT
                         !.files = {f \in @ : f.kind # "best_model"} \cup
                                   {File("best_model", global_step, epoch)},
                         !.ops = @ \cup {DirOp("save_best_model")}]
                 ELSE outDir
            \* the two dicts are reassigned before they are read again
            /\ train_avg' = << >>
            /\ eval_avg' = << >>
            /\ epoch' = epoch + 1
            /\ pc' = "epoch"
            /\ UNCHANGED <<envVars, exitVars, netVars, ddiVars, global_step,
                           num_iter, loss, peer_loss, keep_avg, testVars, stepOps,
                           evalOps, optCalls>>

(* ------------------------ asynchronous events -------------------------- *)
\* Ctrl-C: the interpreter raises KeyboardInterrupt in the main thread at
\* whatever statement is running.  Inside the try block of a test sentence
\* the bare except of line 475 catches it like any failure of the sentence.
KeyboardInterrupt ==
    /\ pc \notin EndPcs
    /\ \/ RaiseHere("KeyboardInterrupt")
       \/ /\ pc = "ev_synth"
          /\ idx < NumSentences
          /\ SynthOne("failed")
          /\ UNCHANGED <<envVars, exitVars, netVars, ddiVars, loopVars,
                         lossVars, stepOps, optCalls>>

\* positions whose statement runs no library or file-system call
QuietPcs == {"call_main", "restore", "ddi_check", "epoch", "ev_synth"}

\* a library or file-system call of the current statement raises
LibraryError ==
    /\ pc \notin EndPcs \cup QuietPcs
    /\ RaiseHere("Exception")

(* ------------------------------ Spec ----------------------------------- *)
Next ==
    \/ SetupArgs \/ CreateFolder \/ Rank0Setup \/ CallMain
    \/ HandleInterrupt \/ HandleException
    \/ MainBuild \/ RestoreLoad \/ RestoreTry \/ RestoreExcept
    \/ RestoreFinish \/ SetupScheduler
    \/ DdiCheck \/ DdiEnable \/ DdiForward \/ DdiDisable \/ SetupLoaders
    \/ EpochStart \/ TrainStart \/ TrainFetch \/ TrainSched \/ ZeroGrad
    \/ Forward \/ ComputeLoss \/ Backward \/ ClipGrad \/ OptimizerStep
    \/ ReduceLosses \/ UpdateAvg \/ TrainCheckpoint \/ TrainDiagnostics
    \/ TrainEnd
    \/ EvalStart \/ EvalFetch \/ EvalForward \/ EvalAvg \/ EvalDiagnostics
    \/ EvalTest \/ Synthesize \/ TestLog \/ EvalReturn \/ SaveBest
    \/ KeyboardInterrupt \/ LibraryError

Spec == Init /\ [][Next]_vars

(* =================== models/tacotron.py: class Tacotron ================ *)
\* longest mel_specs given to forward(), in frames
MaxFrames == 2

\* parameter tensors of one Decoder
NumDecoderParams == 2

\* line 43
encoder_dim == 256

\* speaker_embedding_dim: the default of line 15 and a smaller one
SpeakerDims == {64, 256}

\* the values a mel frame can have
Frames == {1, 2}

\* mel_specs: B x T_out x D, here the sequence of its frames
MelSpecs == UNION {[1..n -> Frames] : n \in 1..MaxFrames}

\* the variables of the training script
trainVars ==
    <<c, args, num_gpus, ckptFile, pc, raised, exitCode, outDir, traced,
      modelParams, optSteps, optRestored, sched, restore_step, global_step,
      epoch, num_iter, best_loss, loss, peer_loss, keep_avg, train_avg,
      eval_avg, stepOps, evalOps, ddi, ddiRuns, ddiAtOptSteps, optCalls, idx,
      test_audios, test_figures, failedIdx, raisedAt>>

\* the training script is not running
TrainingUnused ==
    /\ c = [noam_schedule |-> FALSE, run_eval |-> FALSE, checkpoint |-> FALSE,
            use_speaker_embedding |-> FALSE, reinit_layers |-> FALSE,
            test_delay_epochs |-> 0]
    /\ num_gpus = 1
    /\ args = [rank |-> 0, continue_path |-> FALSE, restore_path |-> FALSE]
    /\ ckptFile = NoCkpt
    /\ pc = "unused"
    /\ raised = "none"
    /\ exitCode = << >>
    /\ outDir = [exists |-> FALSE, files |-> {}, ops |-> {}]
    /\ traced = FALSE
    /\ modelParams = FreshParams
    /\ optSteps = 0
    /\ optRestored = FALSE
    /\ sched = << >>
    /\ restore_step = 0
    /\ global_step = 0
    /\ epoch = 0
    /\ num_iter = 0
    /\ best_loss = Inf
    /\ loss = NaN
    /\ peer_loss = NaN
    /\ keep_avg = EmptyAvg
    /\ train_avg = << >>
    /\ eval_avg = << >>
    /\ stepOps = << >>
    /\ evalOps = << >>
    /\ ddi = FALSE
    /\ ddiRuns = 0
    /\ ddiAtOptSteps = << >>
    /\ optCalls = 0
    /\ idx = 0
    /\ test_audios = {}
    /\ test_figures = {}
    /\ failedIdx = {}
    /\ raisedAt = "none"

\* the arguments of Tacotron(...) that lines 41-75 read
TacotronOptions ==
    [gst : BOOLEAN, num_speakers : {1, 2},
     speaker_embedding_dim : SpeakerDims, bidirectional_decoder : BOOLEAN]

\* lines 34-39: the constructor is entered with its arguments
TacotronStart ==
    /\ TrainingUnused
    /\ tpc = "new"
    /\ \E o \in TacotronOptions :
          tacotron = [NoTacotron EXCEPT
                        !.gst = o.gst,
                        !.num_speakers = o.num_speakers,
                        !.speaker_embedding_dim = o.speaker_embedding_dim,
                        !.bidirectional_decoder = o.bidirectional_decoder]
    /\ tcall = NoCall

\* line 41
gst_embedding_dim == IF tacotron.gst THEN 256 ELSE 0

\* line 42
decoder_dim ==
    IF tacotron.num_speakers > 1
    THEN 256 + tacotron.speaker_embedding_dim + gst_embedding_dim
    ELSE 256

\* lines 50-54: Decoder(decoder_dim, ...) creates its own parameter tensors
Decoder == 1..NumDecoderParams

\* Faulty variant of DeepCopy: the same object is handed back.
DeepCopy_SameObject(module) == module

\* line 56, copy.deepcopy(self.decoder): every parameter tensor is copied
\* into a new object
DeepCopy(module) == {p + NumDecoderParams : p \in module}

\* lines 33-75
Tacotron_init ==
    /\ tpc = "new"
    /\ tacotron' = [tacotron EXCEPT
                      !.decoder_dim = decoder_dim,
                      !.decoder = Decoder,
                      !.decoder_backward =
                          IF tacotron.bidirectional_decoder
                          THEN DeepCopy(Decoder) ELSE NoModule]
    /\ tpc' = "ready"
    /\ UNCHANGED <<tcall, trainVars>>

\* lines 161-165: torch.cat on the last dimension adds the widths
concat_speaker_embedding(outputs, speaker_embeddings) ==
    outputs + speaker_embeddings

\* lines 81-85; the GST layer is built with embedding_dim = gst_embedding_dim
\* (lines 72-75)
compute_gst(inputs) == concat_speaker_embedding(inputs, gst_embedding_dim)

\* lines 98-106 and 132-139: the width of encoder_outputs handed to the
\* decoder
EncoderOutputs(with_gst, with_speaker) ==
    LET styled == IF with_gst THEN compute_gst(encoder_dim) ELSE encoder_dim
    IN IF with_speaker
       THEN concat_speaker_embedding(styled, tacotron.speaker_embedding_dim)
       ELSE styled

\* lines 61-69, 108-112: speaker_project_mel exists only with
\* num_speakers > 1
ProjectionError(with_speaker) ==
    IF with_speaker /\ tacotron.num_speakers <= 1
    THEN "AttributeError" ELSE "none"

\* one call of a decoder: which module, on which targets, with inputs of
\* which width
DecoderCall(dec, memory, width) ==
    [dec |-> dec, memory |-> memory, width |-> width]

\* line 156, torch.flip(mel_specs, dims=(1,)): the frames in reverse order
Flip(mel_specs) ==
    [i \in 1..Len(mel_specs) |-> mel_specs[Len(mel_specs) + 1 - i]]

\* lines 154-159
backward_inference(mel_specs, width) ==
    DecoderCall(tacotron.decoder_backward, Flip(mel_specs), width)

\* line 128
RegularOutputs ==
    <<"decoder_outputs", "postnet_outputs", "alignments", "stop_tokens">>

\* line 127
BackwardOutputs == <<"decoder_outputs_backward", "alignments_backward">>

\* a call that raised before it reached the decoder
Failed(fn, with_speaker, width, err) ==
    [fn |-> fn, speaker |-> with_speaker, width |-> width, error |-> err,
     calls |-> << >>, outputs |-> << >>]

\* lines 87-128
forward(mel_specs, with_speaker) ==
    /\ tpc = "ready"
    /\ LET width == EncoderOutputs(tacotron.gst, with_speaker)
           err == ProjectionError(with_speaker)
           both == tacotron.bidirectional_decoder
       IN tcall' =
            IF err # "none" THEN Failed("forward", with_speaker, width, err)
            ELSE [fn |-> "forward", speaker |-> with_speaker,
                  width |-> width, error |-> "none",
                  calls |-> <<DecoderCall(tacotron.decoder, mel_specs, width)>>
                            \o (IF both
                                THEN <<backward_inference(mel_specs, width)>>
                                ELSE << >>),
                  outputs |-> RegularOutputs
                              \o (IF both THEN BackwardOutputs ELSE << >>)]
    /\ UNCHANGED <<tpc, tacotron, trainVars>>

\* lines 130-152: the style is applied only when a style_mel is given
inference(with_speaker, with_style) ==
    /\ tpc = "ready"
    /\ LET width == EncoderOutputs(tacotron.gst /\ with_style, with_speaker)
           err == ProjectionError(with_speaker)
       IN tcall' =
            IF err # "none" THEN Failed("inference", with_speaker, width, err)
            ELSE [fn |-> "inference", speaker |-> with_speaker,
                  width |-> width, error |-> "none",
                  calls |-> <<DecoderCall(tacotron.decoder, << >>, width)>>,
                  outputs |-> RegularOutputs]
    /\ UNCHANGED <<tpc, tacotron, trainVars>>

TacotronNext ==
    \/ Tacotron_init
    \/ \E mel_specs \in MelSpecs, with_speaker \in BOOLEAN :
          forward(mel_specs, with_speaker)
    \/ \E with_speaker \in BOOLEAN, with_style \in BOOLEAN :
          inference(with_speaker, with_style)

SpecTacotron == TacotronStart /\ [][TacotronNext]_vars

(* ============================ properties =============================== *)
Range(q) == {q[i] : i \in DOMAIN q}

IsPrefix(p, q) == Len(p) <= Len(q) /\ p = SubSeq(q, 1, Len(p))

\* main() is running or has returned; none of its frames was unwound
Running == raised = "none"

Removed == \E o \in outDir.ops : o.op = "remove"

(* ------------------------------- C1 ------------------------------------ *)
\* C1: the data-dependent initialization runs exactly once, before the
\* first optimizer.step(), when training starts at global step 0, and not at
\* all when training resumes from a restored step greater than 0.
C1_DdiOnceIffStepZero ==
    /\ ddiRuns <= 1
    /\ Len(ddiAtOptSteps) <= 1
    /\ \A i \in DOMAIN ddiAtOptSteps : ddiAtOptSteps[i] = 0
    /\ optCalls > 0 /\ ddiAtOptSteps # << >> => ddiRuns = 1 /\ ~ddi
    /\ Running /\ restore_step > 0 => ddiRuns = 0 /\ ddiAtOptSteps = << >>
    /\ Running /\ optCalls > 0 /\ restore_step = 0 => ddiRuns = 1

\* a run restored from a checkpoint of step 0 has initialized once and has
\* taken its first optimizer step
C1_Witness ==
    /\ pc = "tr_reduce"
    /\ args.restore_path
    /\ restore_step = 0
    /\ ddiRuns = 1
    /\ optCalls = 1

(* ------------------------------- C2 ------------------------------------ *)
\* C2: a non-finite loss (NaN or infinity) at a training step stops the run
\* with an error before optimizer.step() is applied for that step.
C2_NoStepOnNonFiniteLoss == pc = "tr_reduce" => IsFinite(loss)

(* ------------------------------- C3 ------------------------------------ *)
\* C3: with more than one worker only rank 0 touches the experiment output
\* directory: creating it, writing the config copy, checkpoints, best model
\* and test audio, and deleting it on failure.
C3_OnlyRankZeroTouchesOutDir == \A o \in outDir.ops : o.rank = 0

(* ------------------------------- C4 ------------------------------------ *)
\* the operations of one training step, in the order of lines 195-260
ExpectedOps ==
    <<"fetch">> \o
    (IF c.noam_schedule THEN <<"scheduler_step">> ELSE << >>) \o
    <<"zero_grad", "forward", "loss", "backward", "clip", "optimizer_step",
      "update_avg">>

\* C4: each training step runs, in this order: fetch and format the batch,
\* scheduler step (only with c.noam_schedule), zero_grad, forward, loss,
\* backward, gradient clipping, optimizer step, running-average update.
C4_StepOrder ==
    /\ IsPrefix(stepOps, ExpectedOps)
    /\ pc \in {"tr_save", "tr_diag"} => stepOps = ExpectedOps
    /\ pc = "tr_fetch" /\ num_iter > 0 => stepOps = ExpectedOps
    /\ ~c.noam_schedule => sched = << >>

\* a step with the Noam schedule has run to its end
C4_Witness ==
    /\ pc = "tr_save"
    /\ c.noam_schedule
    /\ Len(stepOps) = 9
    /\ stepOps[2] = "scheduler_step"
    /\ stepOps[8] = "optimizer_step"

(* ------------------------------- C5 ------------------------------------ *)
\* the entries of the checkpoint that fit the model: same name, same shape
Fits(k) ==
    /\ k \in DOMAIN ckptFile.model
    /\ ckptFile.model[k].shape = ModelShape[k]

\* C5: when the checkpoint does not match the model (missing, extra or
\* differently shaped parameters) the restore does not abort the run: the
\* parameters that match by name and shape are loaded, the others keep
\* their fresh initialization, and training goes on from the checkpoint's
\* step.
C5_PartialRestore ==
    /\ raisedAt # "restore_try"
    /\ pc \in {"restore_done", "post_restore", "ddi_check"}
         /\ ckptFile.arch # "none" /\ ~StrictLoadable(ckptFile)
       => \A k \in ModelKeys :
             modelParams[k] =
                IF Fits(k) THEN ckptFile.model[k] ELSE FreshParams[k]
    /\ pc = "ddi_check" /\ ckptFile.arch # "none"
       => global_step = ckptFile.step

\* a checkpoint whose second parameter has another shape was restored
C5_Witness ==
    /\ pc = "ddi_check"
    /\ ckptFile.arch = "shape"
    /\ modelParams["p1"] = ckptFile.model["p1"]
    /\ modelParams["p2"] = FreshParams["p2"]
    /\ modelParams["p2"] # ckptFile.model["p2"]
    /\ global_step = CkptStep

(* ------------------------------- C6 ------------------------------------ *)
\* C6: a run restored from a checkpoint saved at step s has the global
\* step, the optimizer state and the scheduler position of an uninterrupted
\* run at step s.
C6_RestoreRoundTrip ==
    pc = "ddi_check" /\ ckptFile.arch = "same" /\ ~c.reinit_layers
    => /\ global_step = ckptFile.step
       /\ optSteps = ckptFile.optimizer
       /\ c.noam_schedule => sched = <<ckptFile.step>>

(* ------------------------------- C7 ------------------------------------ *)
\* C7: at the end of an epoch the target loss is the evaluation average
\* when c.run_eval and the training average otherwise; the best model is
\* written exactly when the target is below the best loss so far, which then
\* becomes the target; the best loss never increases.
C7_BestLoss ==
    [][pc = "save_best" /\ pc' = "epoch"
       => LET target == IF c.run_eval THEN eval_avg[1] ELSE train_avg[1]
              written == File("best_model", global_step, epoch)
          IN /\ best_loss' = IF FLess(target, best_loss)
                             THEN target ELSE best_loss
             /\ ~FLess(best_loss, best_loss')
             /\ FLess(target, best_loss) => written \in outDir'.files
             /\ ~FLess(target, best_loss) => outDir' = outDir]_vars

\* with evaluation on, the second epoch improved on the first
C7_Witness ==
    /\ pc = "epoch"
    /\ epoch = NumEpochs
    /\ c.run_eval
    /\ best_loss = Num(1, 1)
    /\ \E f \in outDir.files :
          f.kind = "best_model" /\ f.epoch = NumEpochs - 1

(* ------------------------------- C8 ------------------------------------ *)
\* C8: a test sentence whose synthesis or saving fails is reported and
\* skipped; the remaining sentences are still attempted and evaluate()
\* goes on to return its averages.
C8_FailedSentenceSkipped ==
    /\ raisedAt = "ev_synth" => raised = "KeyboardInterrupt"
    /\ pc = "ev_synth"
       => /\ idx <= NumSentences
          /\ test_audios \cup failedIdx = 0 .. (idx - 1)
    /\ pc = "ev_tb"
       => /\ idx = NumSentences
          /\ test_audios \cup failedIdx = 0 .. (NumSentences - 1)
          /\ test_audios \cap failedIdx = {}
          /\ test_figures = test_audios

\* the first sentence failed, the next one was synthesized all the same
C8_Witness ==
    /\ pc = "ev_tb"
    /\ 0 \in failedIdx
    /\ 1 \in test_audios

(* ------------------------------- C9 ------------------------------------ *)
\* what the two handlers of the entry point leave behind
CleanedUp ==
    /\ Removed
    /\ ~outDir.exists
    /\ raised = "KeyboardInterrupt" => exitCode = <<0>>
    /\ raised # "KeyboardInterrupt" => exitCode = <<1>> /\ traced

\* C9 as stated: every failure of the run ends in one of the two cleanup
\* paths: a keyboard interrupt removes the output directory and exits 0,
\* any other exception removes it, prints the trace and exits 1.
C9_EveryFailureCleansUp ==
    pc = "exited" /\ raised # "none" => CleanedUp

\* C9 amended: every failure that leaves main(args) ends in one of the two
\* cleanup paths; a failure before main(args) is called ends the process
\* with a non-zero status and removes nothing.
C9_FailureOfMainCleansUp ==
    /\ pc = "exited" /\ raised # "none" /\ raisedAt \notin SetupPcs
       => CleanedUp
    /\ pc = "exited" /\ raisedAt \in SetupPcs
       => ~Removed /\ exitCode \notin {<< >>, <<0>>}

\* the TypeError of the training diagnostics left main(): trace, cleanup,
\* exit 1
C9_Witness ==
    /\ pc = "exited"
    /\ raised = "TypeError"
    /\ raisedAt = "tr_diag"
    /\ exitCode = <<1>>
    /\ traced
    /\ ~outDir.exists

(* ------------------------------- C10 ----------------------------------- *)
\* positions inside a training or evaluation step
StepPcs ==
    {"tr_sched", "tr_zero", "tr_forward", "tr_loss", "tr_backward", "tr_clip",
     "tr_optstep", "tr_reduce", "tr_avg", "ev_forward", "ev_avg"}

\* the operation that the statement at a position of a training step runs
PcOp ==
    [tr_sched |-> "scheduler_step", tr_zero |-> "zero_grad",
     tr_forward |-> "forward", tr_loss |-> "loss", tr_backward |-> "backward",
     tr_clip |-> "clip", tr_optstep |-> "optimizer_step",
     tr_reduce |-> "update_avg", tr_avg |-> "update_avg"]

\* C10 as stated: a keyboard interrupt is acted on only between epochs; a
\* step in progress when it arrives, and the rest of the epoch, complete
\* before cleanup and exit: no step is cancelled part-way.
C10_NoStepCancelled ==
    raised = "KeyboardInterrupt" => raisedAt \notin StepPcs

\* C10 amended: a keyboard interrupt that arrives during a training or
\* evaluation step cancels the step at the statement it reached: that
\* operation and the later ones of the step do not run, and the handler
\* removes the output directory and exits 0.
C10_StepCancelledAtOnce ==
    /\ raised = "KeyboardInterrupt" /\ raisedAt \in DOMAIN PcOp
       => /\ stepOps # << >>
          /\ IsPrefix(stepOps, ExpectedOps)
          /\ PcOp[raisedAt] \notin Range(stepOps)
    /\ raised = "KeyboardInterrupt" /\ raisedAt = "ev_avg"
       => evalOps # << >> /\ evalOps[Len(evalOps)] = "forward"
    /\ raised = "KeyboardInterrupt" /\ raisedAt \in StepPcs
       => /\ pc \in {"handler_kbd", "exited"}
          /\ pc = "exited" => exitCode = <<0>> /\ Removed /\ ~outDir.exists

\* interrupted after the backward pass and the clipping: the optimizer step
\* of that step never ran, the folder is gone, the exit code is 0
C10_Witness ==
    /\ pc = "exited"
    /\ raised = "KeyboardInterrupt"
    /\ raisedAt = "tr_optstep"
    /\ "clip" \in Range(stepOps)
    /\ "optimizer_step" \notin Range(stepOps)
    /\ exitCode = <<0>>
    /\ ~outDir.exists

(* ------------------------------- C11 ----------------------------------- *)
\* C11: on rank 0, at every training step whose global step is a multiple
\* of save_step, the checkpoint is written (when c.checkpoint) and the
\* diagnostics are rendered from the batch, after which training goes on
\* with the next batch, with or without speaker embeddings: the rendering
\* itself never fails, only a library error or an interrupt can stop it.
C11_DueStepRendersDiagnostics ==
    raisedAt = "tr_diag" => raised \in {"KeyboardInterrupt", "Exception"}

(* ------------------------------- C12 ----------------------------------- *)
\* C12: the test sentences of an epoch are synthesized only after all eval
\* batches of that epoch, only on rank 0 and only once the epoch index has
\* reached c.test_delay_epochs; below it no sentence is synthesized and no
\* test audio is written.
C12_TestAfterEvalAndDelay ==
    /\ pc \in {"ev_synth", "ev_tb"}
       => /\ args.rank = 0
          /\ epoch >= c.test_delay_epochs
          /\ c.run_eval => num_iter = NumEvalBatches
    /\ \A i \in DOMAIN evalOps :
          evalOps[i] = "synthesis"
          => \A j \in DOMAIN evalOps :
                j > i => evalOps[j] \notin {"forward", "update_avg"}
    /\ Running /\ epoch < c.test_delay_epochs
       => /\ "synthesis" \notin Range(evalOps)
          /\ \A f \in outDir.files : f.kind # "test_audios"
          /\ \A o \in outDir.ops : o.op # "save_wav"

\* with a delay of one epoch the sentences are synthesized in the second
\* epoch, after its eval batches
C12_Witness ==
    /\ pc = "ev_tb"
    /\ c.test_delay_epochs = 1
    /\ epoch = 1
    /\ c.run_eval
    /\ num_iter = NumEvalBatches
    /\ test_audios # {}

(* ------------------------------- C13 ----------------------------------- *)
\* positions inside evaluate()
EvalPcs ==
    {"ev_start", "ev_fetch", "ev_forward", "ev_avg", "ev_diag", "ev_test",
     "ev_synth", "ev_tb", "ev_return"}

CheckpointFiles(d) == {f \in d.files : f.kind = "checkpoint"}

\* C13: evaluate() changes no training state: no step of it calls
\* optimizer.step(), scheduler.step() or backward(), increments the global
\* step or writes a checkpoint, whatever the number of eval batches.
C13_EvalChangesNoTrainingState ==
    [][(pc \in EvalPcs /\ pc' \in EvalPcs \cup {"save_best"})
       => /\ UNCHANGED <<optSteps, optCalls, sched, global_step, modelParams,
                         stepOps, epoch, best_loss>>
          /\ CheckpointFiles(outDir') = CheckpointFiles(outDir)]_vars

\* evaluate() has processed its batches after an epoch of training steps
C13_Witness ==
    /\ pc = "ev_return"
    /\ c.run_eval
    /\ Len(evalOps) >= 2 * NumEvalBatches
    /\ optCalls = NumTrainBatches
    /\ global_step = restore_step + NumTrainBatches

(* ------------------------------- C14 ----------------------------------- *)
\* C14: with more than one worker the loss a step logs and feeds into the
\* running averages is the average over the workers: for local losses a
\* and b every worker records (a + b) / 2; the reduction comes after the
\* backward pass and the optimizer step, which used the local loss.
C14_LoggedLossIsReduced ==
    [][/\ (pc = "tr_reduce" /\ pc' = "tr_avg")
          => /\ "backward" \in Range(stepOps)
             /\ "optimizer_step" \in Range(stepOps)
             /\ loss' = IF num_gpus > 1
                        THEN FDiv(FAdd(loss, peer_loss'), num_gpus) ELSE loss
       /\ (pc = "tr_avg" /\ pc' = "tr_save")
          => keep_avg' = [sum |-> FAdd(keep_avg.sum, loss),
                          n |-> keep_avg.n + 1]
       /\ (pc = "ev_avg" /\ pc' = "ev_fetch")
          => LET logged == IF num_gpus > 1
                           THEN FDiv(FAdd(loss, peer_loss'), num_gpus)
                           ELSE loss
             IN keep_avg' = [sum |-> FAdd(keep_avg.sum, logged),
                             n |-> keep_avg.n + 1]]_vars

\* two workers with local losses 1 and 2: 3/2 is what goes into the average
C14_Witness ==
    /\ pc = "tr_avg"
    /\ num_gpus = 2
    /\ peer_loss = Num(2, 1)
    /\ loss = Num(3, 2)

(* ------------------------------- C16 ----------------------------------- *)
\* C16: data_depended_init sets the calibration flag on the flow layers
\* before its forward pass, runs that pass without any optimizer step, and
\* clears the flag before it returns: once it has returned, and so during
\* every training step, no flow layer is in calibration mode.
C16_CalibrationOnlyInsideDdi ==
    /\ pc \in {"ddi_forward", "ddi_disable"} => ddi
    /\ Running /\ pc \notin {"ddi_forward", "ddi_disable"} => ~ddi
    /\ ddiRuns > 0 => ~ddi
    /\ ddi => /\ ddiAtOptSteps # << >>
              /\ optCalls = ddiAtOptSteps[Len(ddiAtOptSteps)]
              /\ optSteps = 0
              /\ global_step = 0
    /\ stepOps # << >> /\ ddiAtOptSteps # << >> => ddiRuns = Len(ddiAtOptSteps)

\* a training step after the initialization: the flag is off
C16_Witness ==
    /\ pc = "tr_forward"
    /\ ddiRuns = 1
    /\ ~ddi
    /\ global_step = 1

(* ------------------------------- C17 ----------------------------------- *)
\* positions of a training step after the global step was counted
CountedPcs == DOMAIN PcOp \cup {"tr_save", "tr_diag"}

\* the step the run starts from
StartStep == IF ckptFile.arch = "none" THEN 0 ELSE ckptFile.step

\* the checkpoint file that was in the folder before the run
OldCheckpoint == File("checkpoint", ckptFile.step, ckptFile.epoch)

\* C17: the global step starts at the step of the restored checkpoint (0
\* without one), grows by exactly 1 per training batch and by nothing else,
\* and is carried over the epochs: after E epochs of N batches it is the
\* start step plus E * N; a checkpoint written in a step carries the count
\* that includes the step.
C17_GlobalStepAccounting ==
    Running =>
    /\ pc \in {"ddi_check", "ddi_enable", "ddi_forward", "ddi_disable",
               "loaders"}
       => global_step = StartStep /\ restore_step = StartStep
    /\ pc \in {"epoch", "train"}
       => global_step = StartStep + epoch * NumTrainBatches
    /\ pc = "tr_fetch"
       => global_step = StartStep + epoch * NumTrainBatches + num_iter
    /\ pc \in CountedPcs
       => global_step = StartStep + epoch * NumTrainBatches + num_iter + 1
    /\ pc \in EvalPcs \cup {"tr_end", "save_best"}
       => global_step = StartStep + (epoch + 1) * NumTrainBatches
    /\ pc = "exited" /\ exitCode = <<0>>
       => global_step = StartStep + NumEpochs * NumTrainBatches
    /\ pc = "tr_diag" /\ c.checkpoint
       => File("checkpoint", global_step, epoch) \in outDir.files
    /\ \A f \in CheckpointFiles(outDir) \ {OldCheckpoint} :
          /\ f.step % SaveStep = 0
          /\ f.step > StartStep + f.epoch * NumTrainBatches
          /\ f.step <= StartStep + (f.epoch + 1) * NumTrainBatches

\* a run restored at step CkptStep has completed all its epochs
C17_Witness ==
    /\ pc = "exited"
    /\ Running
    /\ exitCode = <<0>>
    /\ restore_step = CkptStep
    /\ global_step = CkptStep + NumEpochs * NumTrainBatches

(* ------------------------------- C18 ----------------------------------- *)
BestModelFiles(d) == {f \in d.files : f.kind = "best_model"}

C15_BackwardDecoderSeparate ==
    tpc = "ready" =>
      /\ tacotron.bidirectional_decoder =>
            /\ tacotron.decoder_backward # NoModule
            /\ tacotron.decoder_backward \cap tacotron.decoder = {}
            /\ Cardinality(tacotron.decoder_backward)
                  = Cardinality(tacotron.decoder)
      /\ ~tacotron.bidirectional_decoder =>
            tacotron.decoder_backward = NoModule
      /\ (tcall.fn = "forward" /\ tcall.error = "none") =>
            /\ tcall.calls[1].dec = tacotron.decoder
            /\ IF tacotron.bidirectional_decoder
               THEN /\ Len(tcall.calls) = 2
                    /\ tcall.calls[2].dec = tacotron.decoder_backward
                    /\ tcall.calls[2].width = tcall.calls[1].width
                    /\ Len(tcall.calls[2].memory) = Len(tcall.calls[1].memory)
                    /\ \A i \in 1..Len(tcall.calls[1].memory) :
                          tcall.calls[2].memory[i] =
                             tcall.calls[1].memory[
                                Len(tcall.calls[1].memory) + 1 - i]
                    /\ tcall.outputs = RegularOutputs \o BackwardOutputs
               ELSE /\ Len(tcall.calls) = 1
                    /\ tcall.outputs = RegularOutputs
      /\ (tcall.fn = "inference" /\ tcall.error = "none") =>
            /\ Len(tcall.calls) = 1
            /\ tcall.calls[1].dec = tacotron.decoder
            /\ tcall.outputs = RegularOutputs

\* forward() of a bidirectional model has run on targets whose reversal
\* differs from them
C15_Witness ==
    /\ tpc = "ready"
    /\ tacotron.bidirectional_decoder
    /\ tcall.fn = "forward"
    /\ tcall.error = "none"
    /\ Len(tcall.calls) = 2
    /\ tcall.calls[1].memory = <<1, 2>>
    /\ tcall.calls[2].memory = <<2, 1>>
    /\ Len(tcall.outputs) = 6

(* C19: whenever forward() is given a speaker embedding exactly when
   num_speakers > 1, the width of the encoder output it hands to the
   decoder equals the decoder_dim the decoder was built with. *)
C19_EncoderWidthIsDecoderDim ==
    (/\ tpc = "ready"
     /\ tcall.fn = "forward"
     /\ tcall.speaker = (tacotron.num_speakers > 1)) =>
        /\ tcall.error = "none"
        /\ \A i \in 1..Len(tcall.calls) :
              tcall.calls[i].width = tacotron.decoder_dim

====
